---------------------------- MODULE Spec2Model ----------------------------
(***************************************************************************)
(* The grease socket task (grease-socket/src/lib.rs): a single-threaded    *)
(* reactor that owns TCP listeners and their accepted connections and      *)
(* talks to its clients through Requests, Confirms, Indications and        *)
(* Responses.                                                              *)
(*                                                                         *)
(* The task's own state (listeners, connections, next_handle, the control  *)
(* channel) is modelled field by field.  The operating system's side of    *)
(* every socket (send buffer, receive buffer, peer state, accept backlog)  *)
(* is modelled as far as the results of accept/read/write depend on it,    *)
(* so that the outcome of each system call is a function of a state the    *)
(* peer drives.  Everything the task delivers to a client sink is          *)
(* appended to the history `out`; everything a client submits is appended  *)
(* to the history `reqs`.                                                  *)
(*                                                                         *)
(* Handlers are operators from a task state record to a task state         *)
(* record, composed in the order the code calls them.                      *)
(***************************************************************************)
EXTENDS Integers, Sequences, FiniteSets, TLC

VARIABLES
    listeners,    \* TaskContext.listeners: handle -> ListenSocket
    connections,  \* TaskContext.connections: handle -> ConnectedSocket
    next_handle,  \* TaskContext.next_handle
    mio_rx,       \* TaskContext.mio_rx: the control channel (FIFO of Incoming)
    poll,         \* TaskContext.poll: the tokens registered with the poller
    draining,     \* process_event is inside its `while let Ok(msg)` loop
    panicked,     \* the task thread has unwound
    out,          \* history: every Confirm/Indication delivered, in order
    reqs,         \* history: every Request submitted, in order
    nrsp,         \* history: number of RspReceived submitted, per handle
    sock,         \* OS state of each accepted stream
    backlog,      \* OS accept queue of each listener (peer addresses)
    npeers,       \* number of peers that have connected so far
    nenv,         \* number of peer inputs so far: connects, bytes, shutdowns
    gatedRead,    \* history: a read was attempted while `outstanding` was set
    deregistered, \* history: handles whose stream poll.deregister was called on
    lookupFailed  \* history: a handler's connections lookup found no entry

vars == <<listeners, connections, next_handle, mio_rx, poll, draining,
          panicked, out, reqs, nrsp, sock, backlog, npeers, nenv,
          gatedRead, deregistered, lookupFailed>>

---------------------------------------------------------------------------
(* Bounds of the model *)

\* Largest handle the allocator issues in the model.
MaxHandle == 3
\* Number of Requests (Bind, Close, Send) the clients submit.
MaxReq == 3
\* Number of inputs from outside in all: the Requests, plus the connections,
\* bytes, shutdowns and resets of the peers.
MaxInputs == 5
\* Longest `data` of a Send.
MaxLen == 2
\* Capacity of a stream's kernel send buffer, in bytes.
SndBuf == 1

(* Program constants *)

MAX_READ_LEN == 2048
MESSAGE_TOKEN == 0

\* The client sinks (grease::ServiceUserHandle values).
Sinks == {"A", "B"}
\* Addresses a client may ask to bind: "lo" and "lo2" can each be bound
\* once, "ext" is not an address of this host (the 8.8.8.8:8000 of
\* test::bind_if_fail).
Addrs == {"lo", "lo2", "ext"}

---------------------------------------------------------------------------
(* Helpers on maps and sequences *)

EmptyMap == [x \in {} |-> 0]

MapPut(f, k, v) == [x \in (DOMAIN f) \cup {k} |-> IF x = k THEN v ELSE f[x]]

MapDel(f, k) == [x \in (DOMAIN f) \ {k} |-> f[x]]

Min(a, b) == IF a < b THEN a ELSE b

\* data[from..]
Slice(data, from) == SubSeq(data, from + 1, Len(data))

\* The bytes of the Send whose context is ctx: every byte of the model is
\* distinct, so that a lost, repeated or reordered byte is visible.
MkData(ctx, len) == [i \in 1..len |-> ctx * 10 + i]

---------------------------------------------------------------------------
(* Results and messages *)

Ok(v) == [ok |-> TRUE, val |-> v, err |-> "None", kind |-> "None"]

\* SocketError::BadHandle, SocketError::Dropped
Err(e) == [ok |-> FALSE, val |-> 0, err |-> e, kind |-> "None"]

\* impl From<io::Error> for SocketError
SocketErrorFrom(io_kind) ==
    [ok |-> FALSE, val |-> 0, err |-> "IOError", kind |-> io_kind]

\* One delivered message.  `handle` is the handle field of CfmClose,
\* CfmSend, IndDropped, IndReceived and the conn_handle of IndConnected;
\* `aux` is the listen_handle of IndConnected; peer is its peer address.
Msg(to, kind, handle, context, result, data, aux, peer) ==
    [to |-> to, kind |-> kind, handle |-> handle, context |-> context,
     result |-> result, data |-> data, aux |-> aux, peer |-> peer]

CfmBind(to, result, context) ==
    Msg(to, "CfmBind", 0, context, result, <<>>, 0, 0)
CfmClose(to, handle, result, context) ==
    Msg(to, "CfmClose", handle, context, result, <<>>, 0, 0)
CfmSend(to, handle, result, context) ==
    Msg(to, "CfmSend", handle, context, result, <<>>, 0, 0)
IndConnected(to, listen_handle, conn_handle, peer) ==
    Msg(to, "IndConnected", conn_handle, 0, Ok(0), <<>>, listen_handle, peer)
IndDropped(to, handle) ==
    Msg(to, "IndDropped", handle, 0, Ok(0), <<>>, 0, 0)
IndReceived(to, handle, data) ==
    Msg(to, "IndReceived", handle, 0, Ok(0), data, 0, 0)

\* One Incoming message of the control channel.
Incoming(kind, handle, context, data, addr, reply_to) ==
    [kind |-> kind, handle |-> handle, context |-> context, data |-> data,
     addr |-> addr, reply_to |-> reply_to]

\* ServiceUser::send_confirm / send_indication: deliver to the sink.
send_confirm(st, cfm) == [st EXCEPT !.out = Append(@, cfm)]
send_indication(st, ind) == [st EXCEPT !.out = Append(@, ind)]

\* Context::take: return the current value and post-increment.
take(n) == [value |-> n, next |-> n + 1]

---------------------------------------------------------------------------
(* The operating system's side of a stream *)

\* redge: the stream has become readable (bytes, end of stream or an error
\* have arrived) and the poller, with which it is registered
\* edge-triggered, has not reported that yet.
NewSock == [sndfree |-> SndBuf, wire |-> <<>>, rcv |-> <<>>, psent |-> 0,
            peer |-> "open", redge |-> FALSE]

\* TcpStream::write on a non-blocking socket: fails once the peer has reset
\* the connection, writes nothing for an empty buffer, would block when the
\* send buffer is full, and otherwise takes as much as fits.
SockWrite(s, buf) ==
    IF s.peer = "reset"
    THEN [ok |-> FALSE, len |-> 0, kind |-> "ConnectionReset", sock |-> s]
    ELSE IF Len(buf) = 0
    THEN [ok |-> TRUE, len |-> 0, kind |-> "None", sock |-> s]
    ELSE IF s.sndfree = 0
    THEN [ok |-> FALSE, len |-> 0, kind |-> "WouldBlock", sock |-> s]
    ELSE LET n == Min(Len(buf), s.sndfree)
         IN  [ok |-> TRUE, len |-> n, kind |-> "None",
              sock |-> [s EXCEPT !.sndfree = @ - n,
                                 !.wire = @ \o SubSeq(buf, 1, n)]]

\* TcpStream::read into a buffer of `cap` bytes: an error after a reset,
\* the buffered bytes if there are any, 0 at end of stream, WouldBlock
\* otherwise.
SockRead(s, cap) ==
    IF s.peer = "reset"
    THEN [ok |-> FALSE, len |-> 0, kind |-> "ConnectionReset", data |-> <<>>,
          sock |-> s]
    ELSE IF s.rcv # <<>>
    THEN LET n == Min(Len(s.rcv), cap)
         IN  [ok |-> TRUE, len |-> n, kind |-> "None",
              data |-> SubSeq(s.rcv, 1, n),
              sock |-> [s EXCEPT !.rcv = Slice(@, n)]]
    ELSE IF s.peer = "closed"
    THEN [ok |-> TRUE, len |-> 0, kind |-> "None", data |-> <<>>, sock |-> s]
    ELSE [ok |-> FALSE, len |-> 0, kind |-> "WouldBlock", data |-> <<>>,
          sock |-> s]

---------------------------------------------------------------------------
(* The task state record the handlers work on *)

Cur == [listeners |-> listeners, connections |-> connections,
        next_handle |-> next_handle, poll |-> poll, draining |-> draining,
        panicked |-> panicked, out |-> out, sock |-> sock,
        backlog |-> backlog, gatedRead |-> gatedRead,
        deregistered |-> deregistered, lookupFailed |-> lookupFailed]

Set(st) ==
    /\ listeners' = st.listeners
    /\ connections' = st.connections
    /\ next_handle' = st.next_handle
    /\ poll' = st.poll
    /\ draining' = st.draining
    /\ panicked' = st.panicked
    /\ out' = st.out
    /\ sock' = st.sock
    /\ backlog' = st.backlog
    /\ gatedRead' = st.gatedRead
    /\ deregistered' = st.deregistered
    /\ lookupFailed' = st.lookupFailed


---------------------------------------------------------------------------
(* Connection teardown *)

\* Variants of FlushCfms: a destruction that confirms nothing, and one that
\* answers to the connection's indication sink.
FlushNothing(cs) == <<>>

FlushToIndSink(cs) ==
    [i \in 1..Len(cs.pending_writes) |->
        CfmSend(cs.ind_to, cs.handle, Err("Dropped"),
                cs.pending_writes[i].context)]

\* The Confirms `impl Drop for ConnectedSocket` sends: one
\* CfmSend{Err(Dropped)} per queued write, in queue order.
FlushCfms(cs) ==
    [i \in 1..Len(cs.pending_writes) |->
        CfmSend(cs.pending_writes[i].reply_to, cs.handle, Err("Dropped"),
                cs.pending_writes[i].context)]

\* impl Drop for ConnectedSocket, followed by the drop of its fields: the
\* stream is closed, which also takes it out of the poller.
drop_ConnectedSocket(st, cs) ==
    [st EXCEPT !.out = @ \o FlushCfms(cs),
               !.sock = MapDel(@, cs.handle),
               !.poll = @ \ {cs.handle}]

\* A variant of dropped that sends the indication and keeps the connection.
dropped_keeping(st, cs_handle) ==
    send_indication(st,
        IndDropped(st.connections[cs_handle].ind_to, cs_handle))

\* TaskContext::dropped: remove, deregister, IndDropped; `cs` goes out of
\* scope at the end of the function, so its Drop runs after the indication.
\* Here and in read_from_socket and pending_writes the lookup of cs_handle
\* is unwrapped; lookupFailed records an unwrap that found no entry.
dropped(st, cs_handle) ==
    IF cs_handle \notin DOMAIN st.connections
    THEN [st EXCEPT !.lookupFailed = TRUE]
    ELSE
    LET cs == st.connections[cs_handle]
        s1 == [st EXCEPT !.connections = MapDel(@, cs_handle),
                         !.poll = @ \ {cs_handle},
                         !.deregistered = @ \cup {cs_handle}]
        s2 == send_indication(s1, IndDropped(cs.ind_to, cs_handle))
    IN  drop_ConnectedSocket(s2, cs)

\* The task thread unwinds after a panic: the TaskContext is dropped, and
\* with it every ConnectedSocket, in the order the HashMap yields them.
RECURSIVE DropAll(_, _)
DropAll(st, order) ==
    IF order = <<>> THEN st
    ELSE LET h == Head(order)
         IN  DropAll(drop_ConnectedSocket(
                        [st EXCEPT !.connections = MapDel(@, h)],
                        st.connections[h]),
                     Tail(order))

unwind(st, order) ==
    [DropAll(st, order) EXCEPT !.listeners = EmptyMap, !.backlog = EmptyMap,
                               !.poll = {}, !.draining = FALSE,
                               !.panicked = TRUE]

---------------------------------------------------------------------------
(* Readiness handlers *)

\* cs.connection.read(buffer) of read_from_socket.  gatedRead records a
\* read attempted while the connection's outstanding flag is set.
stream_read(st, cs_handle) ==
    LET r == SockRead(st.sock[cs_handle], MAX_READ_LEN)
    IN  [res |-> r,
         st |-> [st EXCEPT !.sock[cs_handle] = r.sock,
                           !.gatedRead =
                               @ \/ st.connections[cs_handle].outstanding]]

\* A variant of read_from_socket without the outstanding gate.
read_from_socket_ungated(st, cs_handle) ==
    LET cs == st.connections[cs_handle]
        rd == stream_read(st, cs_handle)
        r == rd.res
        s1 == rd.st
    IN  IF r.ok /\ r.len = 0
        THEN dropped(s1, cs_handle)
        ELSE IF r.ok
        THEN send_indication(
                 [s1 EXCEPT !.connections[cs_handle].outstanding = TRUE],
                 IndReceived(cs.ind_to, cs.handle, r.data))
        ELSE IF r.kind = "WouldBlock"
        THEN s1
        ELSE dropped(s1, cs_handle)

\* A variant of read_from_socket that cuts the buffer one byte too late.
read_from_socket_untruncated(st, cs_handle) ==
    LET cs == st.connections[cs_handle]
    IN  IF ~cs.outstanding
        THEN LET rd == stream_read(st, cs_handle)
                 r == rd.res
                 s1 == rd.st
             IN  IF r.ok /\ r.len = 0
                 THEN dropped(s1, cs_handle)
                 ELSE IF r.ok
                 THEN send_indication(
                          [s1 EXCEPT
                              !.connections[cs_handle].outstanding = TRUE],
                          IndReceived(cs.ind_to, cs.handle,
                                      Append(r.data, 0)))
                 ELSE IF r.kind = "WouldBlock"
                 THEN s1
                 ELSE dropped(s1, cs_handle)
        ELSE st

\* TaskContext::read_from_socket
read_from_socket(st, cs_handle) ==
    IF cs_handle \notin DOMAIN st.connections
    THEN [st EXCEPT !.lookupFailed = TRUE]
    ELSE
    LET cs == st.connections[cs_handle]
    IN  IF ~cs.outstanding
        THEN LET rd == stream_read(st, cs_handle)
                 r == rd.res
                 s1 == rd.st
             IN  IF r.ok /\ r.len = 0
                 THEN dropped(s1, cs_handle)
                 ELSE IF r.ok
                 THEN send_indication(
                          [s1 EXCEPT
                              !.connections[cs_handle].outstanding = TRUE],
                          IndReceived(cs.ind_to, cs.handle, r.data))
                 ELSE IF r.kind = "WouldBlock"
                 THEN s1
                 ELSE dropped(s1, cs_handle)
        ELSE st

\* A variant of pending_writes whose Ok Confirm carries the connection's
\* handle in the place of the write's context.
RECURSIVE pending_writes_handle_as_context(_, _)
pending_writes_handle_as_context(st, cs_handle) ==
    LET cs == st.connections[cs_handle]
    IN  IF cs.pending_writes = <<>>
        THEN st
        ELSE LET pw == Head(cs.pending_writes)
                 rest == Tail(cs.pending_writes)
                 to_send == Len(pw.data) - pw.sent
                 w == SockWrite(st.sock[cs_handle], Slice(pw.data, pw.sent))
                 s1 == [st EXCEPT !.sock[cs_handle] = w.sock]
             IN  IF w.ok /\ w.len < to_send
                 THEN [s1 EXCEPT !.connections[cs_handle].pending_writes =
                          <<[pw EXCEPT !.sent = @ + w.len]>> \o rest]
                 ELSE IF w.ok
                 THEN pending_writes_handle_as_context(
                          send_confirm(
                              [s1 EXCEPT
                                  !.connections[cs_handle].pending_writes =
                                      rest],
                              CfmSend(pw.reply_to, cs.handle,
                                      Ok(pw.sent + to_send), cs.handle)),
                          cs_handle)
                 ELSE send_confirm(
                          [s1 EXCEPT
                              !.connections[cs_handle].pending_writes = rest],
                          CfmSend(pw.reply_to, cs.handle,
                                  SocketErrorFrom(w.kind), pw.context))

\* A variant of pending_writes that returns after the first completed
\* write.
pending_writes_one_entry(st, cs_handle) ==
    LET cs == st.connections[cs_handle]
    IN  IF cs.pending_writes = <<>>
        THEN st
        ELSE LET pw == Head(cs.pending_writes)
                 rest == Tail(cs.pending_writes)
                 to_send == Len(pw.data) - pw.sent
                 w == SockWrite(st.sock[cs_handle], Slice(pw.data, pw.sent))
                 s1 == [st EXCEPT !.sock[cs_handle] = w.sock]
             IN  IF w.ok /\ w.len < to_send
                 THEN [s1 EXCEPT !.connections[cs_handle].pending_writes =
                          <<[pw EXCEPT !.sent = @ + w.len]>> \o rest]
                 ELSE IF w.ok
                 THEN send_confirm(
                          [s1 EXCEPT
                              !.connections[cs_handle].pending_writes = rest],
                          CfmSend(pw.reply_to, cs.handle,
                                  Ok(pw.sent + to_send), pw.context))
                 ELSE send_confirm(
                          [s1 EXCEPT
                              !.connections[cs_handle].pending_writes = rest],
                          CfmSend(pw.reply_to, cs.handle,
                                  SocketErrorFrom(w.kind), pw.context))


\* TaskContext::pending_writes: drain the queue from the front.
RECURSIVE pending_writes(_, _)
pending_writes(st, cs_handle) ==
    IF cs_handle \notin DOMAIN st.connections
    THEN [st EXCEPT !.lookupFailed = TRUE]
    ELSE
    LET cs == st.connections[cs_handle]
    IN  IF cs.pending_writes = <<>>
        THEN st
        ELSE LET pw == Head(cs.pending_writes)
                 rest == Tail(cs.pending_writes)
                 to_send == Len(pw.data) - pw.sent
                 w == SockWrite(st.sock[cs_handle], Slice(pw.data, pw.sent))
                 s1 == [st EXCEPT !.sock[cs_handle] = w.sock]
             IN  IF w.ok /\ w.len < to_send
                 THEN [s1 EXCEPT !.connections[cs_handle].pending_writes =
                          <<[pw EXCEPT !.sent = @ + w.len]>> \o rest]
                 ELSE IF w.ok
                 THEN pending_writes(
                          send_confirm(
                              [s1 EXCEPT
                                  !.connections[cs_handle].pending_writes =
                                      rest],
                              CfmSend(pw.reply_to, cs.handle,
                                      Ok(pw.sent + to_send), pw.context)),
                          cs_handle)
                 ELSE send_confirm(
                          [s1 EXCEPT
                              !.connections[cs_handle].pending_writes = rest],
                          CfmSend(pw.reply_to, cs.handle,
                                  SocketErrorFrom(w.kind), pw.context))

\* A variant of accept_new_connection that announces the connection and
\* does not insert it.
accept_new_connection_unlisted(st, ls_handle, regOk, order) ==
    LET ls == st.listeners[ls_handle]
    IN  IF st.backlog[ls_handle] # <<>>
        THEN LET conn_addr == Head(st.backlog[ls_handle])
                 t == take(st.next_handle)
                 cs == [handle |-> t.value, ind_to |-> ls.ind_to,
                        outstanding |-> FALSE, pending_writes |-> <<>>]
                 s1 == [st EXCEPT !.backlog[ls_handle] = Tail(@),
                                  !.next_handle = t.next]
             IN  IF ~regOk
                 THEN unwind(s1, order)
                 ELSE send_indication(
                          [s1 EXCEPT
                              !.poll = @ \cup {cs.handle},
                              !.sock = MapPut(@, cs.handle, NewSock)],
                          IndConnected(ls.ind_to, ls.handle, cs.handle,
                                       conn_addr))
        ELSE st

\* TaskContext::accept_new_connection.  regOk is the result of
\* poll.register, whose failure is unwrapped; order is the order in which
\* the unwinding then drops the connections.
accept_new_connection(st, ls_handle, regOk, order) ==
    LET ls == st.listeners[ls_handle]
    IN  IF st.backlog[ls_handle] # <<>>
        THEN LET conn_addr == Head(st.backlog[ls_handle])
                 t == take(st.next_handle)
                 cs == [handle |-> t.value, ind_to |-> ls.ind_to,
                        outstanding |-> FALSE, pending_writes |-> <<>>]
                 s1 == [st EXCEPT !.backlog[ls_handle] = Tail(@),
                                  !.next_handle = t.next]
             IN  IF ~regOk
                 THEN unwind(s1, order)
                 ELSE send_indication(
                          [s1 EXCEPT
                              !.poll = @ \cup {cs.handle},
                              !.sock = MapPut(@, cs.handle, NewSock),
                              !.connections = MapPut(@, cs.handle, cs)],
                          IndConnected(ls.ind_to, ls.handle, cs.handle,
                                       conn_addr))
        ELSE st

---------------------------------------------------------------------------
(* Request and response handlers *)

\* TcpListener::bind: the address must belong to this host and must not be
\* bound already.
BindResult(st, addr) ==
    IF addr = "ext" THEN "AddrNotAvailable"
    ELSE IF \E h \in DOMAIN st.listeners : st.listeners[h].addr = addr
    THEN "AddrInUse"
    ELSE "None"

\* A variant of handle_stream_bind that keeps the listener of a Bind whose
\* registration failed.
handle_stream_bind_keeping(st, req_bind, reply_to, regOk) ==
    LET b == BindResult(st, req_bind.addr)
    IN  IF b = "None"
        THEN LET t == take(st.next_handle)
                 h == t.value
                 l == [handle |-> h, ind_to |-> reply_to,
                       addr |-> req_bind.addr]
                 s1 == [st EXCEPT !.next_handle = t.next,
                                  !.listeners = MapPut(@, h, l),
                                  !.backlog = MapPut(@, h, <<>>)]
             IN  IF regOk
                 THEN send_confirm([s1 EXCEPT !.poll = @ \cup {h}],
                          CfmBind(reply_to, Ok(h), req_bind.context))
                 ELSE send_confirm(s1,
                          CfmBind(reply_to, SocketErrorFrom("Other"),
                                  req_bind.context))
        ELSE send_confirm(st,
                 CfmBind(reply_to, SocketErrorFrom(b), req_bind.context))

\* A variant of handle_stream_bind whose listeners all indicate to sink A.
handle_stream_bind_one_sink(st, req_bind, reply_to, regOk) ==
    LET b == BindResult(st, req_bind.addr)
    IN  IF b = "None"
        THEN LET t == take(st.next_handle)
                 h == t.value
                 l == [handle |-> h, ind_to |-> "A", addr |-> req_bind.addr]
                 s1 == [st EXCEPT !.next_handle = t.next]
             IN  IF regOk
                 THEN send_confirm(
                          [s1 EXCEPT !.poll = @ \cup {h},
                                     !.listeners = MapPut(@, h, l),
                                     !.backlog = MapPut(@, h, <<>>)],
                          CfmBind(reply_to, Ok(h), req_bind.context))
                 ELSE send_confirm(s1,
                          CfmBind(reply_to, SocketErrorFrom("Other"),
                                  req_bind.context))
        ELSE send_confirm(st,
                 CfmBind(reply_to, SocketErrorFrom(b), req_bind.context))

\* TaskContext::handle_stream_bind
handle_stream_bind(st, req_bind, reply_to, regOk) ==
    LET b == BindResult(st, req_bind.addr)
    IN  IF b = "None"
        THEN LET t == take(st.next_handle)
                 h == t.value
                 l == [handle |-> h, ind_to |-> reply_to,
                       addr |-> req_bind.addr]
                 s1 == [st EXCEPT !.next_handle = t.next]
             IN  IF regOk
                 THEN send_confirm(
                          [s1 EXCEPT !.poll = @ \cup {h},
                                     !.listeners = MapPut(@, h, l),
                                     !.backlog = MapPut(@, h, <<>>)],
                          CfmBind(reply_to, Ok(h), req_bind.context))
                 ELSE send_confirm(s1,
                          CfmBind(reply_to, SocketErrorFrom("Other"),
                                  req_bind.context))
        ELSE send_confirm(st,
                 CfmBind(reply_to, SocketErrorFrom(b), req_bind.context))

\* TaskContext::handle_bind
handle_bind(st, req_bind, reply_to, regOk) ==
    handle_stream_bind(st, req_bind, reply_to, regOk)

\* Variants of handle_close: one that confirms Ok whatever the handle, and
\* one that confirms without removing the connection.
handle_close_always_ok(st, req_close, reply_to) ==
    LET found == req_close.handle \in DOMAIN st.connections
        s1 == IF found
              THEN drop_ConnectedSocket(
                       [st EXCEPT
                           !.connections = MapDel(@, req_close.handle)],
                       st.connections[req_close.handle])
              ELSE st
    IN  send_confirm(s1,
            CfmClose(reply_to, req_close.handle, Ok(0), req_close.context))

handle_close_keeping(st, req_close, reply_to) ==
    send_confirm(st,
        CfmClose(reply_to, req_close.handle,
                 IF req_close.handle \in DOMAIN st.connections
                 THEN Ok(0) ELSE Err("BadHandle"),
                 req_close.context))

\* A variant of handle_close that keeps the removed ConnectedSocket until
\* the Confirm has been sent.
handle_close_confirm_first(st, req_close, reply_to) ==
    LET found == req_close.handle \in DOMAIN st.connections
        s1 == send_confirm(
                  [st EXCEPT !.connections = MapDel(@, req_close.handle)],
                  CfmClose(reply_to, req_close.handle,
                           IF found THEN Ok(0) ELSE Err("BadHandle"),
                           req_close.context))
    IN  IF found
        THEN drop_ConnectedSocket(s1, st.connections[req_close.handle])
        ELSE s1


\* A variant of handle_close that also closes a listener.
handle_close_any_socket(st, req_close, reply_to) ==
    LET found == req_close.handle \in DOMAIN st.connections
        bound == req_close.handle \in DOMAIN st.listeners
        s1 == IF found
              THEN drop_ConnectedSocket(
                       [st EXCEPT
                           !.connections = MapDel(@, req_close.handle)],
                       st.connections[req_close.handle])
              ELSE IF bound
              THEN [st EXCEPT !.listeners = MapDel(@, req_close.handle),
                              !.backlog = MapDel(@, req_close.handle),
                              !.poll = @ \ {req_close.handle}]
              ELSE st
    IN  send_confirm(s1,
            CfmClose(reply_to, req_close.handle,
                     IF found \/ bound THEN Ok(0) ELSE Err("BadHandle"),
                     req_close.context))


\* TaskContext::handle_close: the removed ConnectedSocket is a temporary of
\* the `let found` statement, so its Drop runs before the Confirm is built.
handle_close(st, req_close, reply_to) ==
    LET found == req_close.handle \in DOMAIN st.connections
        s1 == IF found
              THEN drop_ConnectedSocket(
                       [st EXCEPT
                           !.connections = MapDel(@, req_close.handle)],
                       st.connections[req_close.handle])
              ELSE st
    IN  send_confirm(s1,
            CfmClose(reply_to, req_close.handle,
                     IF found THEN Ok(0) ELSE Err("BadHandle"),
                     req_close.context))

\* A variant of handle_send that writes at once even when writes are
\* queued.
handle_send_eager(st, req_send, reply_to) ==
    IF req_send.handle \in DOMAIN st.connections
    THEN LET h == req_send.handle
             to_send == Len(req_send.data)
             w == SockWrite(st.sock[h], req_send.data)
             s1 == [st EXCEPT !.sock[h] = w.sock]
         IN  IF w.ok /\ w.len < to_send
             THEN [s1 EXCEPT !.connections[h].pending_writes =
                      Append(@, [sent |-> w.len,
                                 context |-> req_send.context,
                                 data |-> req_send.data,
                                 reply_to |-> reply_to])]
             ELSE IF w.ok
             THEN send_confirm(s1,
                      CfmSend(reply_to, req_send.handle, Ok(to_send),
                              req_send.context))
             ELSE send_confirm(s1,
                      CfmSend(reply_to, req_send.handle,
                              SocketErrorFrom(w.kind), req_send.context))
    ELSE send_confirm(st,
             CfmSend(reply_to, req_send.handle, Err("BadHandle"),
                     req_send.context))

\* A variant of handle_send that also queues a write that was sent whole.
handle_send_queue_sent(st, req_send, reply_to) ==
    IF req_send.handle \in DOMAIN st.connections
    THEN LET h == req_send.handle
             cs == st.connections[h]
             to_send == Len(req_send.data)
         IN  IF cs.pending_writes # <<>>
             THEN [st EXCEPT !.connections[h].pending_writes =
                      Append(@, [sent |-> 0, context |-> req_send.context,
                                 data |-> req_send.data,
                                 reply_to |-> reply_to])]
             ELSE LET w == SockWrite(st.sock[h], req_send.data)
                      s1 == [st EXCEPT !.sock[h] = w.sock]
                  IN  IF w.ok /\ w.len <= to_send
                      THEN [s1 EXCEPT !.connections[h].pending_writes =
                               Append(@, [sent |-> w.len,
                                          context |-> req_send.context,
                                          data |-> req_send.data,
                                          reply_to |-> reply_to])]
                      ELSE send_confirm(s1,
                               CfmSend(reply_to, req_send.handle,
                                       SocketErrorFrom(w.kind),
                                       req_send.context))
    ELSE send_confirm(st,
             CfmSend(reply_to, req_send.handle, Err("BadHandle"),
                     req_send.context))

\* A variant of handle_send that queues a write the socket refused.
handle_send_error_queues(st, req_send, reply_to) ==
    IF req_send.handle \in DOMAIN st.connections
    THEN LET h == req_send.handle
             cs == st.connections[h]
             to_send == Len(req_send.data)
         IN  IF cs.pending_writes # <<>>
             THEN [st EXCEPT !.connections[h].pending_writes =
                      Append(@, [sent |-> 0, context |-> req_send.context,
                                 data |-> req_send.data,
                                 reply_to |-> reply_to])]
             ELSE LET w == SockWrite(st.sock[h], req_send.data)
                      s1 == [st EXCEPT !.sock[h] = w.sock]
                  IN  IF ~w.ok \/ w.len < to_send
                      THEN [s1 EXCEPT !.connections[h].pending_writes =
                               Append(@, [sent |-> w.len,
                                          context |-> req_send.context,
                                          data |-> req_send.data,
                                          reply_to |-> reply_to])]
                      ELSE send_confirm(s1,
                               CfmSend(reply_to, req_send.handle,
                                       Ok(to_send), req_send.context))
    ELSE send_confirm(st,
             CfmSend(reply_to, req_send.handle, Err("BadHandle"),
                     req_send.context))


\* A variant of handle_send that does not answer a Send for an unknown
\* handle.
handle_send_unknown_silent(st, req_send, reply_to) ==
    IF req_send.handle \in DOMAIN st.connections
    THEN LET h == req_send.handle
             cs == st.connections[h]
             to_send == Len(req_send.data)
         IN  IF cs.pending_writes # <<>>
             THEN [st EXCEPT !.connections[h].pending_writes =
                      Append(@, [sent |-> 0, context |-> req_send.context,
                                 data |-> req_send.data,
                                 reply_to |-> reply_to])]
             ELSE LET w == SockWrite(st.sock[h], req_send.data)
                      s1 == [st EXCEPT !.sock[h] = w.sock]
                  IN  IF w.ok /\ w.len < to_send
                      THEN [s1 EXCEPT !.connections[h].pending_writes =
                               Append(@, [sent |-> w.len,
                                          context |-> req_send.context,
                                          data |-> req_send.data,
                                          reply_to |-> reply_to])]
                      ELSE IF w.ok
                      THEN send_confirm(s1,
                               CfmSend(reply_to, req_send.handle,
                                       Ok(to_send), req_send.context))
                      ELSE send_confirm(s1,
                               CfmSend(reply_to, req_send.handle,
                                       SocketErrorFrom(w.kind),
                                       req_send.context))
    ELSE st


\* TaskContext::handle_send
handle_send(st, req_send, reply_to) ==
    IF req_send.handle \in DOMAIN st.connections
    THEN LET h == req_send.handle
             cs == st.connections[h]
             to_send == Len(req_send.data)
         IN  IF cs.pending_writes # <<>>
             THEN [st EXCEPT !.connections[h].pending_writes =
                      Append(@, [sent |-> 0, context |-> req_send.context,
                                 data |-> req_send.data,
                                 reply_to |-> reply_to])]
             ELSE LET w == SockWrite(st.sock[h], req_send.data)
                      s1 == [st EXCEPT !.sock[h] = w.sock]
                  IN  IF w.ok /\ w.len < to_send
                      THEN [s1 EXCEPT !.connections[h].pending_writes =
                               Append(@, [sent |-> w.len,
                                          context |-> req_send.context,
                                          data |-> req_send.data,
                                          reply_to |-> reply_to])]
                      ELSE IF w.ok
                      THEN send_confirm(s1,
                               CfmSend(reply_to, req_send.handle,
                                       Ok(to_send), req_send.context))
                      ELSE send_confirm(s1,
                               CfmSend(reply_to, req_send.handle,
                                       SocketErrorFrom(w.kind),
                                       req_send.context))
    ELSE send_confirm(st,
             CfmSend(reply_to, req_send.handle, Err("BadHandle"),
                     req_send.context))

\* A variant of handle_received that clears the flag and does not read.
handle_received_no_read(st, rsp_received) ==
    IF rsp_received.handle \in DOMAIN st.connections
    THEN [st EXCEPT !.connections[rsp_received.handle].outstanding = FALSE]
    ELSE st

\* A variant of handle_received that reads without clearing the flag.
handle_received_flag_kept(st, rsp_received) ==
    IF rsp_received.handle \in DOMAIN st.connections
    THEN read_from_socket(st, rsp_received.handle)
    ELSE st


\* TaskContext::handle_received
handle_received(st, rsp_received) ==
    IF rsp_received.handle \in DOMAIN st.connections
    THEN read_from_socket(
             [st EXCEPT !.connections[rsp_received.handle].outstanding =
                            FALSE],
             rsp_received.handle)
    ELSE st

\* TaskContext::handle_socket_req
handle_socket_req(st, req, reply_to, regOk) ==
    CASE req.kind = "Bind" -> handle_bind(st, req, reply_to, regOk)
      [] req.kind = "Close" -> handle_close(st, req, reply_to)
      [] req.kind = "Send" -> handle_send(st, req, reply_to)

\* TaskContext::handle_socket_rsp
handle_socket_rsp(st, rsp) == handle_received(st, rsp)

\* TaskContext::handle_message
handle_message(st, msg, regOk) ==
    IF msg.kind = "Received"
    THEN handle_socket_rsp(st, msg)
    ELSE handle_socket_req(st, msg, msg.reply_to, regOk)

\* A variant of process_event whose writable branch goes by the maps as
\* they were before the readable branch ran.
process_event_one_lookup(st, token, readable, writable, regOk, order) ==
    LET handle == token
        s1 == IF readable
              THEN IF token = MESSAGE_TOKEN
                   THEN [st EXCEPT !.draining = TRUE]
                   ELSE IF handle \in DOMAIN st.listeners
                   THEN accept_new_connection(st, handle, regOk, order)
                   ELSE IF handle \in DOMAIN st.connections
                   THEN read_from_socket(st, handle)
                   ELSE st
              ELSE st
    IN  IF writable /\ ~s1.panicked
        THEN IF handle \in DOMAIN st.listeners
             THEN s1
             ELSE IF handle \in DOMAIN st.connections
             THEN pending_writes(s1, handle)
             ELSE s1
        ELSE s1


\* TaskContext::process_event.  For the control token the readable branch
\* enters the `while let Ok(msg) = try_recv()` loop, whose iterations are
\* the steps DrainStep and DrainEnd below.
process_event(st, token, readable, writable, regOk, order) ==
    LET handle == token
        s1 == IF readable
              THEN IF token = MESSAGE_TOKEN
                   THEN [st EXCEPT !.draining = TRUE]
                   ELSE IF handle \in DOMAIN st.listeners
                   THEN accept_new_connection(st, handle, regOk, order)
                   ELSE IF handle \in DOMAIN st.connections
                   THEN read_from_socket(st, handle)
                   ELSE st
              ELSE st
    IN  IF writable /\ ~s1.panicked
        THEN IF handle \in DOMAIN s1.listeners
             THEN s1
             ELSE IF handle \in DOMAIN s1.connections
             THEN pending_writes(s1, handle)
             ELSE s1
        ELSE s1


---------------------------------------------------------------------------
(* Initial state: TaskContext::new *)

\* A variant of new_next_handle that starts at the control token.
next_handle_from_token == MESSAGE_TOKEN

\* next_handle: Context::new(MESSAGE_TOKEN.0 + 1)
new_next_handle == MESSAGE_TOKEN + 1

Init ==
    /\ listeners = EmptyMap
    /\ connections = EmptyMap
    /\ next_handle = new_next_handle
    /\ mio_rx = <<>>
    /\ poll = {MESSAGE_TOKEN}
    /\ draining = FALSE
    /\ panicked = FALSE
    /\ out = <<>>
    /\ reqs = <<>>
    /\ nrsp = [h \in 1..MaxHandle |-> 0]
    /\ sock = EmptyMap
    /\ backlog = EmptyMap
    /\ npeers = 0
    /\ nenv = 0
    /\ gatedRead = FALSE
    /\ deregistered = {}
    /\ lookupFailed = FALSE

---------------------------------------------------------------------------
(* The reactor's steps *)

\* All orders in which a HashMap may yield the keys S.
Orders(S) ==
    {s \in [1..Cardinality(S) -> S] :
        \A i, j \in 1..Cardinality(S) : i # j => s[i] # s[j]}

\* process_event for the control token: the channel is registered
\* level-triggered and readable-only, so the event is reported while a
\* message is waiting.
ControlEvent ==
    /\ ~panicked /\ ~draining
    /\ mio_rx # <<>>
    /\ Set(process_event(Cur, MESSAGE_TOKEN, TRUE, FALSE, TRUE, <<>>))
    /\ UNCHANGED <<mio_rx, reqs, nrsp, npeers, nenv>>

\* A variant of DrainStep that takes the newest message of the channel.
DrainStep_newest_first ==
    /\ ~panicked /\ draining
    /\ mio_rx # <<>>
    /\ \E regOk \in (IF mio_rx[Len(mio_rx)].kind = "Bind"
                     THEN BOOLEAN ELSE {TRUE}) :
           Set(handle_message(Cur, mio_rx[Len(mio_rx)], regOk))
    /\ mio_rx' = SubSeq(mio_rx, 1, Len(mio_rx) - 1)
    /\ UNCHANGED <<reqs, nrsp, npeers, nenv>>


\* One iteration of the loop: try_recv returned a message.
DrainStep ==
    /\ ~panicked /\ draining
    /\ mio_rx # <<>>
    /\ \E regOk \in (IF Head(mio_rx).kind = "Bind" THEN BOOLEAN ELSE {TRUE}) :
           Set(handle_message(Cur, Head(mio_rx), regOk))
    /\ mio_rx' = Tail(mio_rx)
    /\ UNCHANGED <<reqs, nrsp, npeers, nenv>>

\* try_recv found the channel empty: the loop and process_event end.
DrainEnd ==
    /\ ~panicked /\ draining
    /\ mio_rx = <<>>
    /\ draining' = FALSE
    /\ UNCHANGED <<listeners, connections, next_handle, mio_rx, poll,
                   panicked, out, reqs, nrsp, sock, backlog, npeers,
                   nenv, gatedRead, deregistered, lookupFailed>>

\* process_event for the token of a socket that has been registered at
\* some time.  The poller may report an event that is stale (its socket has
\* gone since) or spurious (the system call then finds nothing to do).
\* Reporting a readable event uses up the stream's readable edge, whatever
\* the handler then does.
Reported(st, token, readable) ==
    IF readable /\ token \in DOMAIN st.sock
    THEN [st EXCEPT !.sock[token].redge = FALSE]
    ELSE st

SocketEvent(token, readable, writable) ==
    /\ ~panicked /\ ~draining
    /\ token # MESSAGE_TOKEN /\ token < next_handle
    /\ \E regOk \in (IF readable /\ token \in DOMAIN listeners
                     THEN BOOLEAN ELSE {TRUE}) :
       \E order \in (IF readable /\ token \in DOMAIN listeners /\ ~regOk
                     THEN Orders(DOMAIN connections) ELSE {<<>>}) :
           Set(process_event(Reported(Cur, token, readable), token,
                             readable, writable, regOk, order))
    /\ UNCHANGED <<mio_rx, reqs, nrsp, npeers, nenv>>

---------------------------------------------------------------------------
(* The clients *)

NumBind == Cardinality({i \in 1..Len(reqs) : reqs[i].kind = "Bind"})

\* Inputs from outside so far.
NumInputs == Len(reqs) + nenv

Handles == 1..MaxHandle

\* Handles a client may name: those announced to a client by a CfmBind or
\* an IndConnected, listener or connection, live or gone since.
Known ==
    {h \in Handles :
        \E i \in 1..Len(out) :
            \/ out[i].kind = "IndConnected" /\ out[i].handle = h
            \/ out[i].kind = "CfmBind" /\ out[i].result.ok
                  /\ out[i].result.val = h}

\* A handle the task never issues: it issues at most MaxHandle handles,
\* counting up from new_next_handle.
Unissued == MaxHandle + 1

\* The two sinks are interchangeable, so the first Request comes from "A".
SinksNow == IF reqs = <<>> THEN {"A"} ELSE Sinks

\* The two bindable addresses are interchangeable, so "lo" is asked for
\* first.
AddrsNow ==
    IF \E i \in 1..Len(reqs) : reqs[i].kind = "Bind" /\ reqs[i].addr = "lo"
    THEN Addrs ELSE Addrs \ {"lo2"}

\* Handle::send_request.  A client gives every Request a context of its
\* own; the model uses the Request's position in `reqs`.
SubmitReq(msg) ==
    /\ ~panicked
    /\ Len(reqs) < MaxReq
    /\ NumInputs < MaxInputs
    /\ mio_rx' = Append(mio_rx, msg)
    /\ reqs' = Append(reqs, msg)
    /\ UNCHANGED <<listeners, connections, next_handle, poll, draining,
                   panicked, out, nrsp, sock, backlog, npeers, nenv,
                   gatedRead, deregistered, lookupFailed>>

SubmitBind(addr, sink) ==
    /\ NumBind + npeers < MaxHandle
    /\ SubmitReq(Incoming("Bind", 0, Len(reqs) + 1, <<>>, addr, sink))

SubmitClose(h, sink) ==
    SubmitReq(Incoming("Close", h, Len(reqs) + 1, <<>>, "none", sink))

SubmitSend(h, len, sink) ==
    SubmitReq(Incoming("Send", h, Len(reqs) + 1, MkData(Len(reqs) + 1, len),
                       "none", sink))

\* IndReceived for h delivered so far.
NumIndReceived(h) ==
    Cardinality({i \in 1..Len(out) :
                    out[i].kind = "IndReceived" /\ out[i].handle = h})

\* Handle::send_response: the client acknowledges an IndReceived it was
\* given, once.
SubmitRsp(h) ==
    /\ ~panicked
    /\ nrsp[h] < NumIndReceived(h)
    /\ mio_rx' = Append(mio_rx, Incoming("Received", h, 0, <<>>, "none",
                                         "none"))
    /\ nrsp' = [nrsp EXCEPT ![h] = @ + 1]
    /\ UNCHANGED <<listeners, connections, next_handle, poll, draining,
                   panicked, out, reqs, sock, backlog, npeers, nenv,
                   gatedRead, deregistered, lookupFailed>>

---------------------------------------------------------------------------
(* The peers *)

EnvUnchanged ==
    UNCHANGED <<listeners, connections, next_handle, mio_rx, poll, draining,
                panicked, out, reqs, nrsp, gatedRead, deregistered,
                lookupFailed>>

\* A peer connects to a bound address: the connection waits in the
\* listener's accept queue.
PeerConnect(l) ==
    /\ l \in DOMAIN backlog
    /\ NumBind + npeers < MaxHandle
    /\ NumInputs < MaxInputs
    /\ backlog' = [backlog EXCEPT ![l] = Append(@, npeers + 1)]
    /\ npeers' = npeers + 1
    /\ nenv' = nenv + 1
    /\ UNCHANGED sock
    /\ EnvUnchanged

\* The peer writes its next byte.
PeerWrite(h) ==
    /\ h \in DOMAIN sock
    /\ sock[h].peer = "open"
    /\ NumInputs < MaxInputs
    /\ sock' = [sock EXCEPT ![h].rcv = Append(@, sock[h].psent + 1),
                            ![h].psent = @ + 1,
                            ![h].redge = TRUE]
    /\ nenv' = nenv + 1
    /\ UNCHANGED <<backlog, npeers>>
    /\ EnvUnchanged

\* The peer reads what the task has written: the send buffer empties.
PeerRead(h) ==
    /\ h \in DOMAIN sock
    /\ sock[h].peer = "open"
    /\ sock[h].sndfree < SndBuf
    /\ sock' = [sock EXCEPT ![h].sndfree = SndBuf]
    /\ UNCHANGED <<backlog, npeers, nenv>>
    /\ EnvUnchanged

\* The peer shuts the connection down: end of stream after the buffered
\* bytes.
PeerClose(h) ==
    /\ h \in DOMAIN sock
    /\ sock[h].peer = "open"
    /\ NumInputs < MaxInputs
    /\ sock' = [sock EXCEPT ![h].peer = "closed", ![h].redge = TRUE]
    /\ nenv' = nenv + 1
    /\ UNCHANGED <<backlog, npeers>>
    /\ EnvUnchanged

\* The peer resets the connection: reads and writes fail from now on.
PeerReset(h) ==
    /\ h \in DOMAIN sock
    /\ sock[h].peer = "open"
    /\ NumInputs < MaxInputs
    /\ sock' = [sock EXCEPT ![h].peer = "reset", ![h].redge = TRUE]
    /\ nenv' = nenv + 1
    /\ UNCHANGED <<backlog, npeers>>
    /\ EnvUnchanged

---------------------------------------------------------------------------
(* The specification *)

Next ==
    \/ ControlEvent
    \/ DrainStep
    \/ DrainEnd
    \/ \E token \in Handles :
          \/ SocketEvent(token, TRUE, FALSE)
          \/ SocketEvent(token, FALSE, TRUE)
          \/ SocketEvent(token, TRUE, TRUE)
    \/ \E addr \in AddrsNow, sink \in SinksNow : SubmitBind(addr, sink)
    \/ \E h \in Known, sink \in SinksNow : SubmitClose(h, sink)
    \/ \E h \in Known \cup {Unissued}, len \in 0..MaxLen, sink \in SinksNow :
          SubmitSend(h, len, sink)
    \/ \E h \in Handles : SubmitRsp(h)
    \/ \E l \in Handles : PeerConnect(l)
    \/ \E h \in Handles :
          \/ PeerWrite(h)
          \/ PeerRead(h)
          \/ PeerClose(h)
          \/ PeerReset(h)

Spec == Init /\ [][Next]_vars

---------------------------------------------------------------------------
(* The receive path under a poller that reports every edge once *)

\* A readable event the poller owes: a listener (level-triggered) with a
\* connection waiting, or a stream (edge-triggered) with an unreported
\* edge.  The registration of the accepted stream succeeds.
EdgeReadable(token) ==
    /\ \/ token \in DOMAIN backlog /\ backlog[token] # <<>>
       \/ token \in DOMAIN sock /\ sock[token].redge
    /\ SocketEvent(token, TRUE, FALSE)
    /\ ~panicked'

LiveNext ==
    \/ ControlEvent
    \/ DrainStep
    \/ DrainEnd
    \/ \E token \in Handles : EdgeReadable(token)
    \/ \E addr \in AddrsNow, sink \in SinksNow : SubmitBind(addr, sink)
    \/ \E h \in Handles : SubmitRsp(h)
    \/ \E l \in Handles : PeerConnect(l)
    \/ \E h \in Handles :
          \/ PeerWrite(h)
          \/ PeerClose(h)

\* The task thread polls for ever (make_task), so an event that stays due
\* is processed and the drain loop runs on; the client acknowledges every
\* IndReceived it is given.
LiveSpec ==
    /\ Init /\ [][LiveNext]_vars
    /\ WF_vars(ControlEvent) /\ WF_vars(DrainStep) /\ WF_vars(DrainEnd)
    /\ \A h \in Handles : WF_vars(EdgeReadable(h)) /\ WF_vars(SubmitRsp(h))


---------------------------------------------------------------------------
(* Vocabulary of the properties *)

IsInd(m) == m.kind \in {"IndConnected", "IndDropped", "IndReceived"}
IsCfm(m) == m.kind \in {"CfmBind", "CfmClose", "CfmSend"}

\* The message names handle h in one of its fields.
Carries(m, h) ==
    \/ m.kind \in {"CfmClose", "CfmSend", "IndDropped", "IndReceived",
                   "IndConnected"} /\ m.handle = h
    \/ m.kind = "IndConnected" /\ m.aux = h
    \/ m.kind = "CfmBind" /\ m.result.ok /\ m.result.val = h

IsPrefix(s, t) == Len(s) <= Len(t) /\ s = SubSeq(t, 1, Len(s))

\* The Request with context r was answered Err(BadHandle).
BadHandled(r) ==
    \E i \in 1..Len(out) :
        IsCfm(out[i]) /\ out[i].context = r /\ out[i].result.err = "BadHandle"

\* The data of the Sends submitted on connection h up to Request n, in
\* submission order.  A Send answered Err(BadHandle) named a handle that was
\* no connection when it was processed, and is no Send on a connection.
RECURSIVE SubmittedData(_, _)
SubmittedData(h, n) ==
    IF n = 0 THEN <<>>
    ELSE SubmittedData(h, n - 1) \o
         (IF reqs[n].kind = "Send" /\ reqs[n].handle = h /\ ~BadHandled(n)
          THEN reqs[n].data ELSE <<>>)

\* What the step has delivered.
NewOut == SubSeq(out', Len(out) + 1, Len(out'))

---------------------------------------------------------------------------
(* C1 *)

\* C1 as claimed: once IndDropped{h} has been delivered, no later Confirm or
\* Indication names handle h.
C1_NothingAfterDropped ==
    \A i, j \in 1..Len(out) :
        (i < j /\ out[i].kind = "IndDropped")
            => ~Carries(out[j], out[i].handle)

\* C1 as amended: once IndDropped{h} has been delivered, no later Indication
\* names h, and a later Confirm that names h is an error Confirm: a
\* CfmSend{Err(Dropped)} for a write that was queued at the drop, or the
\* Err(BadHandle) answer to a Send or Close submitted on h.
C1_OnlyErrorsAfterDropped ==
    \A i, j \in 1..Len(out) :
        (i < j /\ out[i].kind = "IndDropped"
               /\ Carries(out[j], out[i].handle))
            => \/ out[j].kind = "CfmSend"
                    /\ out[j].result.err \in {"Dropped", "BadHandle"}
               \/ out[j].kind = "CfmClose"
                    /\ out[j].result.err = "BadHandle"

\* A connection was dropped with a write queued, and a Send on its handle
\* was answered afterwards.
C1_Witness ==
    \E i, j, k \in 1..Len(out) :
        /\ i < j /\ j < k
        /\ out[i].kind = "IndDropped"
        /\ out[j].kind = "CfmSend" /\ out[j].handle = out[i].handle
        /\ out[j].result.err = "Dropped"
        /\ out[k].kind = "CfmSend" /\ out[k].handle = out[i].handle
        /\ out[k].result.err = "BadHandle"

---------------------------------------------------------------------------
(* C2 *)

\* C2 as claimed: the bytes written to the wire of a connection are a
\* prefix of the data of the Sends submitted on it, in submission order.
C2_WireIsPrefix ==
    \A h \in DOMAIN sock :
        IsPrefix(sock[h].wire, SubmittedData(h, Len(reqs)))

---------------------------------------------------------------------------
(* C3 *)

\* C3: at most one IndReceived of a connection is delivered and not yet
\* acknowledged, and no read is attempted on a stream whose connection has
\* its outstanding flag set.
C3_OneOutstanding ==
    /\ \A h \in Handles : NumIndReceived(h) - nrsp[h] <= 1
    /\ ~gatedRead

\* Bytes are waiting on a stream whose indication is outstanding, after an
\* earlier indication of the same connection was acknowledged.
C3_Witness ==
    \E h \in DOMAIN connections :
        /\ connections[h].outstanding
        /\ NumIndReceived(h) = 2 /\ nrsp[h] = 1

---------------------------------------------------------------------------
(* C4 *)

CfmKind(k) ==
    CASE k = "Bind" -> "CfmBind" [] k = "Close" -> "CfmClose"
      [] k = "Send" -> "CfmSend"

InChannel(r) ==
    \E k \in 1..Len(mio_rx) :
        mio_rx[k].kind # "Received" /\ mio_rx[k].context = r

Queued(r) ==
    \E h \in DOMAIN connections :
        \E k \in 1..Len(connections[h].pending_writes) :
            connections[h].pending_writes[k].context = r

CfmsOf(r) == {i \in 1..Len(out) : IsCfm(out[i]) /\ out[i].context = r}

\* C4: a Request still in the channel or queued as a pending write has no
\* Confirm; every other Request has exactly one, of its own kind, at the
\* reply sink it was submitted with.
C4_ExactlyOneConfirm ==
    \A r \in 1..Len(reqs) :
        IF InChannel(r) \/ Queued(r)
        THEN CfmsOf(r) = {}
        ELSE /\ Cardinality(CfmsOf(r)) = 1
             /\ \A i \in CfmsOf(r) :
                    /\ out[i].kind = CfmKind(reqs[r].kind)
                    /\ out[i].to = reqs[r].reply_to

\* A Send was queued and got its one Confirm when its connection was
\* dropped, while another Send is still in the channel.
C4_Witness ==
    /\ \E i, j \in 1..Len(out) :
          /\ i < j /\ out[i].kind = "IndDropped"
          /\ out[j].kind = "CfmSend" /\ out[j].result.err = "Dropped"
    /\ \E r \in 1..Len(reqs) : InChannel(r)

---------------------------------------------------------------------------
(* C5 *)

\* C5 as claimed, in the form a finite run refutes: the CfmSend of a Send
\* accepted on a connection that has not been dropped and whose peer is
\* still there to read is Ok(length of its data).
C5_ConfirmIsOkLen ==
    \A i \in 1..Len(out) :
        (/\ out[i].kind = "CfmSend"
         /\ out[i].result.err # "BadHandle"
         /\ out[i].handle \in DOMAIN connections
         /\ sock[out[i].handle].peer = "open")
            => out[i].result = Ok(Len(reqs[out[i].context].data))


---------------------------------------------------------------------------
(* C6 *)

\* C6: a step that destroys the ConnectedSocket of handle h delivers, for
\* the writes queued on it and in queue order, one CfmSend{Err(Dropped)}
\* each, carrying the write's context and h, to the write's own reply sink;
\* it delivers no other CfmSend{Err(Dropped)} for h.
C6_FlushOnDestruction ==
    [][\A h \in DOMAIN connections :
          h \notin DOMAIN connections' =>
              LET q == connections[h].pending_writes
                  IsFlush(m) == /\ m.kind = "CfmSend" /\ m.handle = h
                                /\ m.result.err = "Dropped"
              IN  /\ IsPrefix(out, out')
                  /\ SelectSeq(NewOut, IsFlush) =
                         [i \in 1..Len(q) |->
                             [to |-> q[i].reply_to, kind |-> "CfmSend",
                              handle |-> h, context |-> q[i].context,
                              result |-> Err("Dropped"), data |-> <<>>,
                              aux |-> 0, peer |-> 0]]]_vars

\* A Close destroyed a connection on which a write was queued by another
\* client than the one that owns the connection.
C6_Witness ==
    \E i \in 2..Len(out) :
        /\ out[i].kind = "CfmClose" /\ out[i].result.ok
        /\ out[i - 1].kind = "CfmSend" /\ out[i - 1].result.err = "Dropped"
        /\ out[i - 1].handle = out[i].handle
        /\ \E k \in 1..Len(out) :
               /\ out[k].kind = "IndConnected"
               /\ out[k].handle = out[i].handle
               /\ out[k].to # out[i - 1].to

---------------------------------------------------------------------------
(* C7 *)

\* C7: the CfmSends of one connection are delivered in the order in which
\* their Sends were submitted.
C7_ConfirmsInSubmissionOrder ==
    \A i, j \in 1..Len(out) :
        (/\ i < j
         /\ out[i].kind = "CfmSend" /\ out[j].kind = "CfmSend"
         /\ out[i].handle = out[j].handle)
            => out[i].context < out[j].context

\* Two Sends were queued on one connection and have both been confirmed.
C7_Witness ==
    \E i, j \in 1..Len(out) :
        /\ i < j
        /\ out[i].kind = "CfmSend" /\ out[j].kind = "CfmSend"
        /\ out[i].handle = out[j].handle
        /\ out[i].result.err = "Dropped" /\ out[j].result.err = "Dropped"

---------------------------------------------------------------------------
(* C8 *)

\* The handles issued so far, in the order they were announced.
IsIssue(m) == m.kind = "IndConnected" \/ (m.kind = "CfmBind" /\ m.result.ok)
IssuedHandle(m) == IF m.kind = "CfmBind" THEN m.result.val ELSE m.handle
Issued == SelectSeq(out, IsIssue)

\* The handles of the connections that were removed.
IsRemoval(m) == m.kind = "IndDropped" \/ (m.kind = "CfmClose" /\ m.result.ok)
Removed == {out[i].handle : i \in {k \in 1..Len(out) : IsRemoval(out[k])}}

C8_State ==
    /\ 0 \notin (DOMAIN listeners) \cup (DOMAIN connections)
    /\ (DOMAIN listeners) \cap (DOMAIN connections) = {}
    /\ \A i \in 1..Len(Issued) : IssuedHandle(Issued[i]) # 0
    /\ \A i, j \in 1..Len(Issued) :
           i < j => IssuedHandle(Issued[i]) < IssuedHandle(Issued[j])
    /\ Removed \cap ((DOMAIN listeners) \cup (DOMAIN connections)) = {}

C8_Step ==
    /\ \A h \in (DOMAIN connections') \ (DOMAIN connections) :
           h >= next_handle /\ h \notin DOMAIN listeners
    /\ \A h \in (DOMAIN listeners') \ (DOMAIN listeners) :
           h >= next_handle /\ h \notin DOMAIN connections
    /\ next_handle' >= next_handle
    /\ \A h \in (DOMAIN listeners') \cup (DOMAIN connections') :
           h < next_handle'

\* C8: no handle is 0; handles are issued in strictly increasing order, so
\* they are pairwise distinct; no handle is a key of listeners and of
\* connections at once; a key added to either map has never been a key
\* before, so a handle removed from connections does not come back.
C8_HandlesFresh == []C8_State /\ [][C8_Step]_vars

\* A connection was removed and a connection was accepted afterwards.
C8_Witness ==
    \E i, j \in 1..Len(out) :
        /\ i < j
        /\ IsRemoval(out[i])
        /\ out[j].kind = "IndConnected"
        /\ out[j].handle \in DOMAIN connections

---------------------------------------------------------------------------
(* C9 *)

\* C9: processing Close{handle, context} removes the connection and
\* confirms CfmClose{Ok} if handle is a key of connections; otherwise it
\* confirms CfmClose{Err(BadHandle)} and leaves both maps as they are.  In
\* both cases listeners is unchanged and the CfmClose is the last message
\* of the step.
C9_CloseIffConnection ==
    [][(/\ draining /\ mio_rx # <<>> /\ mio_rx' = Tail(mio_rx)
        /\ Head(mio_rx).kind = "Close")
          => LET rq == Head(mio_rx)
                 found == rq.handle \in DOMAIN connections
             IN  /\ Len(out') > Len(out)
                 /\ out'[Len(out')] =
                        CfmClose(rq.reply_to, rq.handle,
                                 IF found THEN Ok(0) ELSE Err("BadHandle"),
                                 rq.context)
                 /\ listeners' = listeners
                 /\ IF found
                    THEN /\ DOMAIN connections' =
                                (DOMAIN connections) \ {rq.handle}
                         /\ \A h \in DOMAIN connections' :
                                connections'[h] = connections[h]
                    ELSE connections' = connections]_vars

\* A connection was closed, and a second Close on its handle was answered
\* Err(BadHandle).
C9_Witness ==
    \E i, j \in 1..Len(out) :
        /\ i < j
        /\ out[i].kind = "CfmClose" /\ out[i].result.ok
        /\ out[j].kind = "CfmClose" /\ out[j].handle = out[i].handle
        /\ out[j].result.err = "BadHandle"

---------------------------------------------------------------------------
(* C10 *)

\* C10: once CfmClose{Ok} has been delivered for h, no Indication that
\* names h is delivered.
C10_NoIndicationAfterClose ==
    \A i, j \in 1..Len(out) :
        (/\ i < j
         /\ out[i].kind = "CfmClose" /\ out[i].result.ok)
            => ~(IsInd(out[j]) /\ Carries(out[j], out[i].handle))

\* A connection on which the peer's bytes had been indicated was closed,
\* and the task has gone on to accept another connection.
C10_Witness ==
    \E i, j, k \in 1..Len(out) :
        /\ i < j /\ j < k
        /\ out[i].kind = "IndReceived"
        /\ out[j].kind = "CfmClose" /\ out[j].result.ok
        /\ out[j].handle = out[i].handle
        /\ out[k].kind = "IndConnected"


---------------------------------------------------------------------------
(* C11 *)

\* C11: every Confirm carries the context of a Request that was submitted
\* and answers that Request: it is of the Request's kind, goes to the
\* Request's reply sink, a CfmSend or CfmClose names the handle the Request
\* names, and an Ok CfmSend reports the length of the Request's data.
C11_ContextAndHandleEchoed ==
    \A i \in 1..Len(out) :
        IsCfm(out[i]) =>
            /\ out[i].context \in 1..Len(reqs)
            /\ LET rq == reqs[out[i].context]
               IN  /\ out[i].kind = CfmKind(rq.kind)
                   /\ out[i].to = rq.reply_to
                   /\ out[i].kind \in {"CfmSend", "CfmClose"}
                          => out[i].handle = rq.handle
                   /\ (out[i].kind = "CfmSend" /\ out[i].result.ok)
                          => out[i].result.val = Len(rq.data)

\* A queued Send was confirmed Ok by the drain, and a later Send on the
\* same connection was confirmed at the destruction of the connection.
C11_Witness ==
    \E i, j \in 1..Len(out) :
        /\ i < j
        /\ out[i].kind = "CfmSend" /\ out[i].result.ok
        /\ Len(reqs[out[i].context].data) > SndBuf
        /\ out[j].kind = "CfmSend" /\ out[j].result.err = "Dropped"
        /\ out[j].handle = out[i].handle


---------------------------------------------------------------------------
(* C12 *)

\* The data of the IndReceived delivered for h among the first n messages,
\* in delivery order.
RECURSIVE RecvData(_, _)
RecvData(h, n) ==
    IF n = 0 THEN <<>>
    ELSE RecvData(h, n - 1) \o
         (IF out[n].kind = "IndReceived" /\ out[n].handle = h
          THEN out[n].data ELSE <<>>)

\* The first n bytes a peer writes: the peers of the model write 1, 2, 3...
PeerStream(n) == [i \in 1..n |-> i]

---------------------------------------------------------------------------
(* C13 *)

DroppedInd(h) ==
    \E i \in 1..Len(out) : out[i].kind = "IndDropped" /\ out[i].handle = h

---------------------------------------------------------------------------
(* C14 *)

C14_State ==
    \A j \in 1..Len(out) :
        /\ out[j].kind \in {"IndReceived", "IndDropped"} =>
               \E i \in 1..(j - 1) :
                   out[i].kind = "IndConnected"
                       /\ out[i].handle = out[j].handle
        /\ out[j].kind \in {"IndConnected", "IndDropped"} =>
               \A i \in 1..(j - 1) :
                   ~(out[i].kind = out[j].kind
                         /\ out[i].handle = out[j].handle)

C14_Step ==
    \A k \in 1..Len(NewOut) :
        NewOut[k].kind = "IndConnected" =>
            LET m == NewOut[k]
            IN  /\ m.handle \in DOMAIN connections'
                /\ m.handle \notin DOMAIN connections
                /\ m.aux \in DOMAIN listeners
                /\ backlog[m.aux] # <<>>
                /\ Head(backlog[m.aux]) = m.peer
                /\ backlog'[m.aux] = Tail(backlog[m.aux])

\* C14: IndConnected is the first Indication for a connection handle and is
\* delivered once; it names the listener whose accept queue the connection
\* was taken from and the peer that connected; the connection is a key of
\* connections at the end of the step that delivers it; IndDropped is
\* delivered at most once per handle and only after its IndConnected.
C14_ConnectedFirst == []C14_State /\ [][C14_Step]_vars

\* With two listeners bound, a connection was accepted on the second one,
\* and has been dropped since.
C14_Witness ==
    \E i, j \in 1..Len(out) :
        /\ i < j
        /\ out[i].kind = "IndConnected"
        /\ out[i].aux > 1
        /\ Cardinality(DOMAIN listeners) = 2
        /\ out[j].kind = "IndDropped" /\ out[j].handle = out[i].handle


---------------------------------------------------------------------------
(* C15 *)

C15_State ==
    \A h \in (DOMAIN listeners) \cup (DOMAIN connections) : h \in poll

C15_Step ==
    \A h \in (DOMAIN connections) \ (DOMAIN connections') :
        h \in deregistered'

\* C15 as claimed: every record of listeners and connections is registered
\* with the poller under its handle, and every step of the running task
\* that removes a connection, by the drop path or by Close, calls
\* poll.deregister on its stream.
C15_RegisteredUntilDeregistered ==
    []C15_State /\ [][~panicked' => C15_Step]_vars


---------------------------------------------------------------------------
(* C16 *)

\* The PendingWrites queued on the connections.
AllQueued ==
    UNION {{connections[h].pending_writes[k] :
                k \in 1..Len(connections[h].pending_writes)} :
           h \in DOMAIN connections}

\* C16 as claimed: every queued PendingWrite has sent <= data.len(), and
\* none has sent = data.len().
C16_SentBelowLen ==
    \A pw \in AllQueued : pw.sent <= Len(pw.data) /\ pw.sent # Len(pw.data)

\* C16 as amended: every queued PendingWrite has sent <= data.len(); one
\* with sent = data.len() is a zero-length Send that was appended behind a
\* non-empty queue and waits for its turn, with sent = 0; only the write at
\* the front of a queue has sent > 0.
C16_SentAtMostLen ==
    \A h \in DOMAIN connections :
        \A k \in 1..Len(connections[h].pending_writes) :
            LET pw == connections[h].pending_writes[k]
            IN  /\ pw.sent <= Len(pw.data)
                /\ pw.sent = Len(pw.data) => Len(pw.data) = 0
                /\ pw.sent > 0 => k = 1

\* A zero-length Send is queued behind a write of which a part was sent.
C16_Witness ==
    \E h \in DOMAIN connections :
        LET q == connections[h].pending_writes
        IN  /\ Len(q) = 2
            /\ q[1].sent > 0 /\ q[1].sent < Len(q[1].data)
            /\ q[2].data = <<>>


---------------------------------------------------------------------------
(* C17 *)

\* C17 as claimed: no failure of a single connection or listener ends the
\* task thread.
C17_TaskSurvives == ~panicked

---------------------------------------------------------------------------
(* C18 *)

\* A write other than one that would block failed.
IsWriteError(m) ==
    /\ m.kind = "CfmSend" /\ m.result.err = "IOError"
    /\ m.result.kind # "WouldBlock"

\* C18 as claimed: when the write of a queued PendingWrite fails in a
\* writable wake-up, the step removes the connection and delivers
\* IndDropped for it (the Err(Dropped) of the writes left in the queue
\* then follows from the flush at destruction).
C18_WriteErrorDrops ==
    [][\A k \in 1..Len(NewOut) :
          (~draining /\ IsWriteError(NewOut[k])) =>
              LET h == NewOut[k].handle
              IN  /\ h \notin DOMAIN connections'
                  /\ \E j \in 1..Len(NewOut) :
                         NewOut[j].kind = "IndDropped"
                             /\ NewOut[j].handle = h]_vars


---------------------------------------------------------------------------
(* C19 *)

\* C19: IndConnected goes to the sink of the Bind that created the
\* listener it names; IndReceived and IndDropped of a connection go to the
\* sink its IndConnected went to; a CfmSend goes to the reply sink its Send
\* was submitted with.
C19_Sinks ==
    \A j \in 1..Len(out) :
        /\ out[j].kind = "IndConnected" =>
               \E i \in 1..(j - 1) :
                   /\ out[i].kind = "CfmBind" /\ out[i].result.ok
                   /\ out[i].result.val = out[j].aux
                   /\ out[j].to = reqs[out[i].context].reply_to
        /\ out[j].kind \in {"IndReceived", "IndDropped"} =>
               \E i \in 1..(j - 1) :
                   /\ out[i].kind = "IndConnected"
                   /\ out[i].handle = out[j].handle
                   /\ out[j].to = out[i].to
        /\ out[j].kind = "CfmSend" =>
               out[j].to = reqs[out[j].context].reply_to

\* A connection of a listener bound by client B was dropped with a write
\* of client A queued: the IndDropped went to B, the CfmSend to A.
C19_Witness ==
    \E i, j \in 1..Len(out) :
        /\ i < j
        /\ out[i].kind = "IndDropped" /\ out[i].to = "B"
        /\ out[j].kind = "CfmSend" /\ out[j].handle = out[i].handle
        /\ out[j].result.err = "Dropped" /\ out[j].to = "A"


---------------------------------------------------------------------------
(* C20 *)

\* The address is bound by a listener of this task.
AddrBound(addr) ==
    \E l \in DOMAIN listeners : listeners[l].addr = addr

\* C20: the step that processes Bind{addr, context} delivers one message,
\* a CfmBind with the request's context at its reply sink, and leaves
\* connections and the existing listeners as they are.  The Bind fails if
\* addr is bound already or is not bindable, and may fail at the
\* registration; a failed Bind is confirmed Err(IOError(kind)) and adds no
\* listener; a Bind confirmed Ok(h) adds the listener h and nothing else.
C20_FailedBind ==
    [][(/\ draining /\ mio_rx # <<>> /\ mio_rx' = Tail(mio_rx)
        /\ Head(mio_rx).kind = "Bind")
          => LET rq == Head(mio_rx)
             IN  /\ Len(NewOut) = 1
                 /\ NewOut[1].kind = "CfmBind"
                 /\ NewOut[1].context = rq.context
                 /\ NewOut[1].to = rq.reply_to
                 /\ connections' = connections
                 /\ \A l \in DOMAIN listeners :
                        l \in DOMAIN listeners'
                            /\ listeners'[l] = listeners[l]
                 /\ (AddrBound(rq.addr) \/ rq.addr = "ext")
                        => ~NewOut[1].result.ok
                 /\ IF NewOut[1].result.ok
                    THEN DOMAIN listeners' =
                             (DOMAIN listeners) \cup {NewOut[1].result.val}
                    ELSE /\ NewOut[1].result.err = "IOError"
                         /\ NewOut[1].result.kind # "None"
                         /\ listeners' = listeners]_vars

\* With a listener bound and a connection accepted on it, a second Bind of
\* the listener's address was confirmed Err(IOError(AddrInUse)); the
\* listener and the connection are still there.
C20_Witness ==
    /\ connections # EmptyMap
    /\ listeners # EmptyMap
    /\ \E i, j \in 1..Len(out) :
          /\ i < j
          /\ out[i].kind = "IndConnected"
          /\ out[j].kind = "CfmBind"
          /\ out[j].result.kind = "AddrInUse"


---------------------------------------------------------------------------
(* C21 *)

\* What one drain of connection h's queue, from task state st to r, may do:
\* the first n entries are answered in order, each to its own sink with its
\* own context; all but the last of them with Ok(length of the data), the
\* last with that or with an IOError; after an error the remaining entries
\* are as they were; otherwise the queue is empty, or its front entry has
\* had more of its data written and is not complete.  Nothing else in the
\* maps changes.
DrainedAsSpecified(st, r, h) ==
    LET q == st.connections[h].pending_writes
        new == SubSeq(r.out, Len(st.out) + 1, Len(r.out))
        n == Len(new)
    IN  /\ IsPrefix(st.out, r.out)
        /\ r.listeners = st.listeners
        /\ DOMAIN r.connections = DOMAIN st.connections
        /\ \A g \in DOMAIN st.connections \ {h} :
               r.connections[g] = st.connections[g]
        /\ [r.connections[h] EXCEPT !.pending_writes = q] = st.connections[h]
        /\ n <= Len(q)
        /\ \A i \in 1..n :
               /\ new[i].kind = "CfmSend"
               /\ new[i].to = q[i].reply_to
               /\ new[i].handle = h
               /\ new[i].context = q[i].context
               /\ \/ new[i].result = Ok(Len(q[i].data))
                  \/ i = n /\ ~new[i].result.ok
                           /\ new[i].result.err = "IOError"
        /\ LET q2 == r.connections[h].pending_writes
           IN  IF n > 0 /\ ~new[n].result.ok
               THEN q2 = SubSeq(q, n + 1, Len(q))
               ELSE \/ n = Len(q) /\ q2 = <<>>
                    \/ /\ n < Len(q)
                       /\ Len(q2) = Len(q) - n
                       /\ Tail(q2) = SubSeq(q, n + 2, Len(q))
                       /\ q2[1] = [q[n + 1] EXCEPT !.sent = q2[1].sent]
                       /\ q2[1].sent > q[n + 1].sent
                       /\ q2[1].sent < Len(q[n + 1].data)
                       /\ Len(r.sock[h].wire) > Len(st.sock[h].wire)

\* C21: whenever the task can be given a writable event for a connection,
\* the drain of that connection's queue does what DrainedAsSpecified says:
\* a partial write updates sent, leaves the entry at the front and ends the
\* drain without a Confirm; a complete write is confirmed Ok(length of the
\* data) to the entry's sink and the drain goes on; a write error is
\* confirmed Err(IOError) for the front entry only and ends the drain, the
\* other entries staying in their order and the connection in connections.
C21_DrainFromFront ==
    (~panicked /\ ~draining) =>
        \A h \in DOMAIN connections :
            /\ DrainedAsSpecified(Cur, pending_writes(Cur, h), h)
            /\ DrainedAsSpecified(Cur,
                   process_event(Cur, h, FALSE, TRUE, TRUE, <<>>), h)

\* A connection whose queue holds two writes, on which a writable event
\* completes the first, goes on to the second, fails there and stops: two
\* Confirms, Ok then IOError, and the connection stays.
C21_Witness ==
    /\ ~panicked /\ ~draining
    /\ \E h \in DOMAIN connections :
           LET r == process_event(Cur, h, FALSE, TRUE, TRUE, <<>>)
           IN  /\ Len(connections[h].pending_writes) = 2
               /\ Len(r.out) = Len(out) + 2
               /\ r.out[Len(out) + 1].result.ok
               /\ ~r.out[Len(out) + 2].result.ok
               /\ h \in DOMAIN r.connections
               /\ r.connections[h].pending_writes = <<>>

---------------------------------------------------------------------------
(* C22 *)

\* C22: a step that processes Send{h, data} for a connection h either
\* appends the write at the back of a non-empty queue with sent = 0, leaving
\* the socket and the Confirms alone; or, the queue being empty, writes once:
\* all of data, confirmed Ok(length) at once; or the first `wrote` bytes with
\* 0 <= wrote < length, the write queued with sent = wrote and no Confirm; or
\* nothing, confirmed Err(IOError(kind)) with nothing queued.
C22_SendOnConnection ==
    [][(/\ draining /\ mio_rx # <<>> /\ mio_rx' = Tail(mio_rx)
        /\ Head(mio_rx).kind = "Send"
        /\ Head(mio_rx).handle \in DOMAIN connections)
       => LET rq == Head(mio_rx)
              h == rq.handle
              len == Len(rq.data)
              q == connections[h].pending_writes
              pw(n) == [sent |-> n, context |-> rq.context,
                        data |-> rq.data, reply_to |-> rq.reply_to]
          IN  /\ h \in DOMAIN connections' /\ h \in DOMAIN sock'
              /\ LET q2 == connections'[h].pending_writes
                     wrote == Len(sock'[h].wire) - Len(sock[h].wire)
                 IN  IF q # <<>>
                     THEN /\ q2 = Append(q, pw(0))
                          /\ sock' = sock
                          /\ out' = out
                     ELSE /\ sock'[h].wire
                                = sock[h].wire \o SubSeq(rq.data, 1, wrote)
                          /\ \/ /\ wrote = len
                                /\ q2 = <<>>
                                /\ NewOut = <<CfmSend(rq.reply_to, h, Ok(len),
                                                      rq.context)>>
                             \/ /\ wrote >= 0 /\ wrote < len
                                /\ q2 = <<pw(wrote)>>
                                /\ out' = out
                             \/ /\ wrote = 0
                                /\ q2 = <<>>
                                /\ Len(NewOut) = 1
                                /\ NewOut[1].kind = "CfmSend"
                                /\ NewOut[1].to = rq.reply_to
                                /\ NewOut[1].handle = h
                                /\ NewOut[1].context = rq.context
                                /\ ~NewOut[1].result.ok
                                /\ NewOut[1].result.err = "IOError"]_vars

\* Both ways into the queue: a connection whose front entry was written in
\* part by its Send, and whose second entry, a Send with data that found
\* the queue non-empty, has sent = 0.
C22_Witness ==
    \E h \in DOMAIN connections :
        LET q == connections[h].pending_writes
        IN  /\ Len(q) = 2
            /\ q[1].sent > 0 /\ q[1].sent < Len(q[1].data)
            /\ q[2].sent = 0 /\ q[2].data # <<>>

---------------------------------------------------------------------------
(* C23 *)

\* The task's maps, sockets and output are as they were.
TaskUntouched ==
    UNCHANGED <<listeners, connections, next_handle, poll, out, sock,
                backlog, panicked>>

C23_StaleResponse ==
    /\ draining /\ mio_rx # <<>>
    /\ Head(mio_rx).kind = "Received"
    /\ Head(mio_rx).handle \notin DOMAIN connections

---------------------------------------------------------------------------
(* C24 *)

\* C24: a step that processes Send{h} for a handle that is not a key of
\* connections emits exactly CfmSend{Err(BadHandle)} with the Request's
\* handle and context to the Request's sink, writes to no socket, and leaves
\* listeners, connections and with them every queue as they were.
C24_SendBadHandle ==
    [][(/\ draining /\ mio_rx # <<>> /\ mio_rx' = Tail(mio_rx)
        /\ Head(mio_rx).kind = "Send"
        /\ Head(mio_rx).handle \notin DOMAIN connections)
       => LET rq == Head(mio_rx)
          IN  /\ NewOut = <<CfmSend(rq.reply_to, rq.handle, Err("BadHandle"),
                                    rq.context)>>
              /\ UNCHANGED <<listeners, connections, next_handle, poll,
                             sock, backlog, panicked>>]_vars

\* Confirm number i is the BadHandle answer to a Send.
SendRefused(i) ==
    /\ out[i].kind = "CfmSend"
    /\ ~out[i].result.ok /\ out[i].result.err = "BadHandle"

\* Sends have been refused for a handle that was never issued, and for the
\* handle of a listener that is in listeners.
C24_Witness ==
    /\ \E i \in 1..Len(out) : SendRefused(i) /\ out[i].handle = Unissued
    /\ \E i \in 1..Len(out) :
           SendRefused(i) /\ out[i].handle \in DOMAIN listeners

\* A Send has been refused for a connection that was closed or dropped
\* before.
C24_GoneConnection ==
    \E i, j \in 1..Len(out) :
        /\ i < j
        /\ out[i].kind \in {"CfmClose", "IndDropped"}
        /\ out[i].kind = "CfmClose" => out[i].result.ok
        /\ SendRefused(j) /\ out[j].handle = out[i].handle

---------------------------------------------------------------------------
(* C25 *)

\* The step leaves the task in the state r.
TaskBecomes(r) ==
    /\ listeners' = r.listeners
    /\ connections' = r.connections
    /\ next_handle' = r.next_handle
    /\ poll' = r.poll
    /\ panicked' = r.panicked
    /\ out' = r.out
    /\ sock' = r.sock
    /\ backlog' = r.backlog

\* The task takes no step: what only the task writes is as it was.
TaskIdle ==
    UNCHANGED <<listeners, connections, next_handle, poll, out, panicked>>

\* Bind and Close are always confirmed by the step that handles them, so
\* their Confirms show the order of dispatch: it is the order of submission
\* (a Request's context is its position among the submitted Requests).
C25_State ==
    \A i, j \in 1..Len(out) :
        (/\ i < j
         /\ out[i].kind \in {"CfmBind", "CfmClose"}
         /\ out[j].kind \in {"CfmBind", "CfmClose"})
        => out[i].context < out[j].context

\* The channel changes only at its ends: a message is appended at the back,
\* which leaves the task alone, or the front message is taken by the loop
\* and handled in that step.  While the loop runs and a message waits, the
\* task does nothing but handle the front message, and the loop ends only
\* on an empty channel.
C25_Step ==
    /\ mio_rx' # mio_rx
       => \/ /\ draining /\ mio_rx # <<>>
             /\ mio_rx' = Tail(mio_rx)
             /\ \E regOk \in BOOLEAN :
                    TaskBecomes(handle_message(Cur, Head(mio_rx), regOk))
          \/ /\ mio_rx' # <<>>
             /\ mio_rx' = Append(mio_rx, mio_rx'[Len(mio_rx')])
             /\ TaskUntouched
    /\ (draining /\ mio_rx # <<>>)
       => (draining' /\ (mio_rx' = Tail(mio_rx) \/ TaskIdle))
    /\ (draining /\ ~draining') => mio_rx = <<>>

\* C25: once the control token is readable the loop dispatches the waiting
\* messages one by one from the front until the channel is empty; messages
\* are handled in the order they were enqueued, none twice and none
\* skipped.
C25_DrainInOrder == []C25_State /\ [][C25_Step]_vars

\* The loop is running, has confirmed the Request submitted before the one
\* now at the front, and another message waits behind the front one.
C25_Witness ==
    /\ draining /\ Len(mio_rx) >= 2
    /\ mio_rx[1].kind # "Received"
    /\ \E i \in 1..Len(out) :
           IsCfm(out[i]) /\ out[i].context = mio_rx[1].context - 1

---------------------------------------------------------------------------
(* C26 *)

\* Tokens the poller may still report: those of sockets registered at some
\* time.
TokensIssued == {t \in Handles : t < next_handle}

\* C26: no handler ever looks up a handle that is not a key of connections,
\* so the unwrapped lookups of read_from_socket, pending_writes and dropped
\* never fail; and whenever the task can be given an event, an event of any
\* readiness for a token that is in neither map leaves the task state as it
\* is and emits nothing.
C26_StaleEventsHarmless ==
    /\ ~lookupFailed
    /\ (~panicked /\ ~draining)
       => \A token \in TokensIssued \ (DOMAIN listeners \cup
                                          DOMAIN connections) :
              \A readable, writable \in BOOLEAN :
                  process_event(Reported(Cur, token, readable), token,
                                readable, writable, TRUE, <<>>) = Cur

\* A connection with a queued write whose peer has gone: one event that is
\* readable and writable drops it in the read path, and the write path then
\* finds the handle in neither map.  A token of a connection dropped
\* earlier is there to be reported as well.
C26_Witness ==
    /\ ~panicked /\ ~draining
    /\ TokensIssued \ (DOMAIN listeners \cup DOMAIN connections) # {}
    /\ \E h \in DOMAIN connections :
           LET r == process_event(Reported(Cur, h, TRUE), h, TRUE, TRUE,
                                  TRUE, <<>>)
           IN  /\ connections[h].pending_writes # <<>>
               /\ h \notin DOMAIN r.connections
               /\ r.out # out

---------------------------------------------------------------------------
(* C27 *)

\* No CfmSend{Err(Dropped)} for a handle comes after the CfmClose{Ok} for
\* it.
C27_State ==
    \A i, j \in 1..Len(out) :
        (/\ i < j
         /\ out[i].kind = "CfmClose" /\ out[i].result.ok
         /\ out[j].kind = "CfmSend" /\ out[j].handle = out[i].handle)
        => out[j].result.err # "Dropped"

\* A step that processes Close{h} for a connection h emits one
\* CfmSend{Err(Dropped)} per queued write, in queue order, and after them
\* the CfmClose{Ok}.
C27_Step ==
    (/\ draining /\ mio_rx # <<>> /\ mio_rx' = Tail(mio_rx)
     /\ Head(mio_rx).kind = "Close"
     /\ Head(mio_rx).handle \in DOMAIN connections)
    => LET rq == Head(mio_rx)
           q == connections[rq.handle].pending_writes
       IN  /\ Len(NewOut) = Len(q) + 1
           /\ \A i \in 1..Len(q) :
                  NewOut[i] = CfmSend(q[i].reply_to, rq.handle,
                                      Err("Dropped"), q[i].context)
           /\ NewOut[Len(q) + 1]
                  = CfmClose(rq.reply_to, rq.handle, Ok(0), rq.context)

\* C27: when a Close is processed for a connection with queued writes,
\* every CfmSend{Err(Dropped)} of the flush is emitted before the
\* CfmClose{Ok}.
C27_FlushBeforeCfmClose == []C27_State /\ [][C27_Step]_vars

\* A client closed a connection on which its own write was queued: it was
\* given the CfmSend{Err(Dropped)} and then the CfmClose{Ok}.
C27_Witness ==
    \E i \in 2..Len(out) :
        /\ out[i].kind = "CfmClose" /\ out[i].result.ok
        /\ out[i - 1].kind = "CfmSend" /\ out[i - 1].result.err = "Dropped"
        /\ out[i - 1].handle = out[i].handle
        /\ out[i - 1].to = out[i].to

---------------------------------------------------------------------------
(* C28 *)

\* C28: while the task runs, no step takes an entry out of listeners or
\* changes one, whatever happens to the connections accepted on it; and a
\* step that processes Close{h} or Send{h} for a listener handle h answers
\* Err(BadHandle) with the Request's handle and context and changes nothing
\* else.  (The listeners go only with the task itself, when its thread
\* unwinds.)
C28_ListenersStay ==
    [][/\ ~panicked' =>
             \A l \in DOMAIN listeners :
                 l \in DOMAIN listeners' /\ listeners'[l] = listeners[l]
       /\ (/\ draining /\ mio_rx # <<>> /\ mio_rx' = Tail(mio_rx)
           /\ Head(mio_rx).kind \in {"Close", "Send"}
           /\ Head(mio_rx).handle \in DOMAIN listeners)
          => LET rq == Head(mio_rx)
             IN  /\ NewOut =
                      <<IF rq.kind = "Close"
                        THEN CfmClose(rq.reply_to, rq.handle,
                                      Err("BadHandle"), rq.context)
                        ELSE CfmSend(rq.reply_to, rq.handle,
                                     Err("BadHandle"), rq.context)>>
                 /\ UNCHANGED <<listeners, connections, poll, sock,
                                backlog>>]_vars

\* A listener is in listeners after a Close naming its handle was answered
\* Err(BadHandle), and after a connection accepted on it was closed or
\* dropped.
C28_Witness ==
    \E l \in DOMAIN listeners :
        /\ \E i \in 1..Len(out) :
               /\ out[i].kind = "CfmClose" /\ out[i].handle = l
               /\ ~out[i].result.ok /\ out[i].result.err = "BadHandle"
        /\ \E k \in 1..Len(out) :
               /\ out[k].kind = "IndConnected" /\ out[k].aux = l
               /\ out[k].handle \notin DOMAIN connections

=============================================================================
